---- MODULE Spec2Model ----
(***************************************************************************)
(* A model of the NanoCBOR decoder (src/src/decoder.c).                    *)
(*                                                                         *)
(* Memory model.  The backing buffer is the byte sequence buf; a pointer   *)
(* is the offset from the buffer's first byte.  The decoder is built for   *)
(* a little-endian host with a 64-bit size_t (endian.h/be64toh, config.h   *)
(* selects NANOCBOR_INT_VAL_UINT64 for NANOCBOR_INT_VAL_SIZE there).  An   *)
(* integer object is the sequence of its bytes in memory, least            *)
(* significant byte first, so that the memcpy of _get_uint64 is modelled   *)
(* byte for byte.                                                          *)
(*                                                                         *)
(* Undefined behaviour.  A read at or past the end of the buffer yields    *)
(* the byte pad, chosen nondeterministically when the buffer is chosen;    *)
(* an object the code reads before writing it is filled with the byte      *)
(* junk, chosen nondeterministically likewise.  An uninitialised pointer   *)
(* filled with 0x00 lies before the buffer, one filled with 0xFF past it.  *)
(***************************************************************************)
EXTENDS Integers, Sequences, FiniteSets, TLC

VARIABLES buf, pad, junk, its, last

vars == <<buf, pad, junk, its, last>>

---------------------------------------------------------------------------
(* Bounds of the model. *)

\* longest buffer of the general specification
MaxLen == 2
\* an operation is applied only while the cursor is within this many bytes
\* past the end of the buffer
Slack == 1
\* deepest stack of entered containers, the top-level iterator included
MaxDepth == 3
\* longest chain of nested arrays of the skip specification
MaxNest == 11
\* largest element count of the containers of the container specification
MaxCount == 2

---------------------------------------------------------------------------
(* nanocbor/nanocbor.h: the wire constants and the error codes. *)

NANOCBOR_TYPE_OFFSET == 5
NANOCBOR_TYPE_MASK == 224
NANOCBOR_VALUE_MASK == 31

NANOCBOR_MASK_UINT == 0
NANOCBOR_MASK_NINT == 32
NANOCBOR_MASK_BSTR == 64
NANOCBOR_MASK_TSTR == 96
NANOCBOR_MASK_ARR == 128
NANOCBOR_MASK_MAP == 160
NANOCBOR_MASK_TAG == 192
NANOCBOR_MASK_FLOAT == 224

NANOCBOR_SIMPLE_FALSE == 20
NANOCBOR_SIMPLE_TRUE == 21
NANOCBOR_SIMPLE_NULL == 22

NANOCBOR_INT_VAL_UINT8 == 24
NANOCBOR_INT_VAL_UINT16 == 25
NANOCBOR_INT_VAL_UINT32 == 26
NANOCBOR_INT_VAL_UINT64 == 27

NANOCBOR_DECODER_FLAG_CONTAINER == 1
NANOCBOR_DECODER_FLAG_INDEFINITE == 2

NANOCBOR_OK == 0
NANOCBOR_ERR_OVERFLOW == -1
NANOCBOR_ERR_INVALID_TYPE == -2
NANOCBOR_ERR_END == -3
NANOCBOR_ERR_RECURSION == -4

(* nanocbor/config.h *)
NANOCBOR_RECURSION_MAX == 10
NANOCBOR_INT_VAL_SIZE == NANOCBOR_INT_VAL_UINT64

---------------------------------------------------------------------------
(* Integer objects as bytes in memory, least significant byte first. *)

Byte == 0..255

\* x & y on bytes, bit by bit
AndBits(x, y) ==
  (x % 2) * (y % 2)
  + 2 * ((x \div 2) % 2) * ((y \div 2) % 2)
  + 4 * ((x \div 4) % 2) * ((y \div 4) % 2)
  + 8 * ((x \div 8) % 2) * ((y \div 8) % 2)
  + 16 * ((x \div 16) % 2) * ((y \div 16) % 2)
  + 32 * ((x \div 32) % 2) * ((y \div 32) % 2)
  + 64 * ((x \div 64) % 2) * ((y \div 64) % 2)
  + 128 * (x \div 128) * (y \div 128)

\* a & b and a | b; each operand is evaluated once and then combined
And(a, b) == CHOOSE r \in {AndBits(x, y) : x \in {a}, y \in {b}} : TRUE

Or(a, b) == CHOOSE r \in {x + y - AndBits(x, y) : x \in {a}, y \in {b}} : TRUE

\* the n-byte object holding the small number v
LE(v, n) ==
  [i \in 1..n |-> IF i = 1 THEN v % 256
                  ELSE IF i = 2 THEN (v \div 256) % 256
                  ELSE IF i = 3 THEN (v \div 65536) % 256
                  ELSE IF i = 4 THEN (v \div 16777216) % 256
                  ELSE 0]

\* an n-byte object whose every byte is g
Fill(n, g) == [i \in 1..n |-> g]

\* the object's value is below 2^23, so that it is a number of the model
IsSmall(o) == \A i \in 1..Len(o) : (i = 3 => o[i] < 128) /\ (i > 3 => o[i] = 0)

\* the value of a small object
Val(o) ==
  (IF Len(o) >= 1 THEN o[1] ELSE 0)
  + (IF Len(o) >= 2 THEN o[2] * 256 ELSE 0)
  + (IF Len(o) >= 3 THEN o[3] * 65536 ELSE 0)

IsZero(o) == \A i \in 1..Len(o) : o[i] = 0

\* o - 1 modulo 2^(8 * Len(o)): the borrow runs through the low zero bytes
Dec(o) ==
  [i \in 1..Len(o) |->
     IF \A j \in 1..(i - 1) : o[j] = 0
     THEN (IF o[i] = 0 THEN 255 ELSE o[i] - 1)
     ELSE o[i]]

\* 2 * o modulo 2^(8 * Len(o))
Twice(o) ==
  [i \in 1..Len(o) |->
     ((2 * o[i]) % 256) + (IF i > 1 /\ o[i - 1] >= 128 THEN 1 ELSE 0)]

\* ~o: the bytes of -(v) - 1 in two's complement
Not(o) == [i \in 1..Len(o) |-> 255 - o[i]]

UINT32_MAX == Fill(4, 255)

\* o > UINT32_MAX / 2 and o > INT32_MAX, for a 4-byte o
AboveInt32Max(o) == o[4] >= 128

---------------------------------------------------------------------------
(* The buffer and the iterator. *)

\* *p : the byte at offset p; past the buffer, whatever lies there
Rd(p) == IF p >= 0 /\ p < Len(buf) THEN buf[p + 1] ELSE pad

\* nanocbor_value_t
Iter(s, e, f, r) == [start |-> s, end |-> e, flags |-> f, remaining |-> r]

\* flags & bit, for a single-bit flag
HasFlag(flags, bit) == (flags \div bit) % 2 = 1

\* nanocbor_decoder_init: remaining is left as it was
nanocbor_decoder_init(len, r) == Iter(0, len, 0, r)

\* *start & NANOCBOR_TYPE_MASK (0xE0): the byte with its low five bits cleared
_get_type(it) == (Rd(it.start) \div 32) * 32

nanocbor_get_type(it) == _get_type(it) \div (2 ^ NANOCBOR_TYPE_OFFSET)

\* the read of *it->start touches a byte outside the buffer
OobAt(it) == it.start >= it.end \/ it.start < 0

---------------------------------------------------------------------------
(* The header parser and the typed accessors, as functions of the iterator *)
(* and of the prior contents of the objects they write.                    *)

\* _get_uint64(cvalue, value, max, type); prior is *value before the call.
\* res is the return value, val is *value after it, oob tells whether a byte
\* outside the buffer was read.
\* The inline case stores 8 bytes through the uint64_t pointer: the low bytes
\* land in *value, and what the store does past a narrower object is not
\* followed.
_get_uint64(cvalue, prior, max, type) ==
  LET ctype == _get_type(cvalue)
      \* *start & NANOCBOR_VALUE_MASK (0x1F): the low five bits
      bytelen == Rd(cvalue.start) % 32
      bytes == 2 ^ (bytelen - 24)
  IN  IF type # ctype
      THEN [res |-> NANOCBOR_ERR_INVALID_TYPE, val |-> prior, oob |-> OobAt(cvalue)]
      ELSE IF bytelen < 24
      THEN [res |-> 1, val |-> LE(bytelen, Len(prior)), oob |-> OobAt(cvalue)]
      ELSE IF bytelen > max
      THEN [res |-> NANOCBOR_ERR_OVERFLOW, val |-> prior, oob |-> OobAt(cvalue)]
      ELSE IF cvalue.start + bytes > cvalue.end
      THEN [res |-> NANOCBOR_ERR_END, val |-> prior, oob |-> OobAt(cvalue)]
      ELSE [res |-> 1 + bytes,
            \* tmp holds the argument in host order; memcpy(value, &tmp, bytes)
            \* writes its first `bytes` bytes and leaves the rest of *value
            val |-> [i \in 1..Len(prior) |->
                       IF i <= bytes THEN Rd(cvalue.start + 1 + bytes - i)
                       ELSE prior[i]],
            oob |-> OobAt(cvalue) \/ cvalue.start + bytes >= cvalue.end]

\* _get_nint32; g is the uninitialised uint32_t tmp, prior is *value
_get_nint32(cvalue, prior, g, type) ==
  LET r == _get_uint64(cvalue, g, NANOCBOR_INT_VAL_UINT32, type)
  IN  IF ~AboveInt32Max(r.val)
      THEN [res |-> r.res, val |-> Not(r.val), oob |-> r.oob]
      ELSE [res |-> NANOCBOR_ERR_OVERFLOW, val |-> prior, oob |-> r.oob]

_advance(cvalue, res) ==
  [cvalue EXCEPT !.start = @ + res, !.remaining = Dec(@)]

\* a slip: `if (res)` instead of `if (res > 0)`
_advance_if_any(cvalue, res) == IF res # 0 THEN _advance(cvalue, res) ELSE cvalue

_advance_if(cvalue, res) == IF res > 0 THEN _advance(cvalue, res) ELSE cvalue

\* nanocbor_get_uint32; prior is *value before the call
nanocbor_get_uint32(cvalue, prior) ==
  LET r == _get_uint64(cvalue, prior, NANOCBOR_INT_VAL_UINT32, NANOCBOR_MASK_UINT)
  IN  [res |-> r.res, val |-> r.val, oob |-> r.oob, it |-> _advance_if(cvalue, r.res)]

\* nanocbor_get_int32; g is what _get_nint32's tmp holds
nanocbor_get_int32(cvalue, g) ==
  LET r == _get_uint64(cvalue, LE(0, 4), NANOCBOR_INT_VAL_UINT32, NANOCBOR_MASK_UINT)
      n == _get_nint32(cvalue, r.val, g, NANOCBOR_MASK_NINT)
      f == IF r.res = NANOCBOR_ERR_INVALID_TYPE THEN n ELSE r
  IN  [res |-> f.res, val |-> f.val, oob |-> f.oob, it |-> _advance_if(cvalue, f.res)]

\* _get_str; pbuf and plen are *buf and *len before the call
_get_str(cvalue, pbuf, plen, type) ==
  LET r == _get_uint64(cvalue, plen, NANOCBOR_INT_VAL_SIZE, type)
      room == cvalue.end - cvalue.start
      a == _advance_if(cvalue, r.res)
  IN  IF room < 0 \/ ~IsSmall(r.val) \/ room < Val(r.val)
      THEN [res |-> NANOCBOR_ERR_END, ptr |-> pbuf, len |-> r.val,
            oob |-> r.oob, it |-> cvalue]
      ELSE IF r.res > 0
      THEN [res |-> r.res, ptr |-> a.start, len |-> r.val, oob |-> r.oob,
            it |-> [a EXCEPT !.start = @ + Val(r.val)]]
      ELSE [res |-> r.res, ptr |-> pbuf, len |-> r.val, oob |-> r.oob, it |-> cvalue]

nanocbor_get_bstr(cvalue, pbuf, plen) == _get_str(cvalue, pbuf, plen, NANOCBOR_MASK_BSTR)

nanocbor_get_tstr(cvalue, pbuf, plen) == _get_str(cvalue, pbuf, plen, NANOCBOR_MASK_TSTR)

nanocbor_get_null(cvalue) ==
  IF Rd(cvalue.start) = Or(NANOCBOR_MASK_FLOAT, NANOCBOR_SIMPLE_NULL)
  THEN [res |-> NANOCBOR_OK, oob |-> OobAt(cvalue), it |-> _advance(cvalue, 1)]
  ELSE [res |-> NANOCBOR_ERR_INVALID_TYPE, oob |-> OobAt(cvalue), it |-> cvalue]

\* nanocbor_get_bool; prior is *value before the call
nanocbor_get_bool(cvalue, prior) ==
  LET b == Rd(cvalue.start)
  IN  IF And(b, Or(NANOCBOR_TYPE_MASK, NANOCBOR_VALUE_MASK - 1))
           = Or(NANOCBOR_MASK_FLOAT, NANOCBOR_SIMPLE_FALSE)
      THEN [res |-> NANOCBOR_OK, val |-> <<And(b, 1)>>, oob |-> OobAt(cvalue),
            it |-> _advance(cvalue, 1)]
      ELSE [res |-> NANOCBOR_ERR_INVALID_TYPE, val |-> prior, oob |-> OobAt(cvalue),
            it |-> cvalue]

\* nanocbor_at_end: res is the result, it the iterator after the call
nanocbor_at_end(it) ==
  IF HasFlag(it.flags, NANOCBOR_DECODER_FLAG_CONTAINER)
  THEN IF HasFlag(it.flags, NANOCBOR_DECODER_FLAG_INDEFINITE) /\ Rd(it.start) = 255
       THEN [res |-> TRUE, oob |-> OobAt(it), it |-> [it EXCEPT !.start = @ + 1]]
       ELSE [res |-> IsZero(it.remaining),
             oob |-> HasFlag(it.flags, NANOCBOR_DECODER_FLAG_INDEFINITE) /\ OobAt(it),
             it |-> it]
  ELSE [res |-> it.start >= it.end, oob |-> FALSE, it |-> it]

---------------------------------------------------------------------------
(* Containers and skip. *)

\* _enter_container(it, container, type); container holds the child
\* structure's prior contents.  The count is written through a uint64_t
\* pointer to container->remaining: the bytes past remaining that the inline
\* case overwrites are flags and padding, and flags is assigned afterwards.
_enter_container(it, container, type) ==
  LET c == [container EXCEPT !.end = it.end]
      r == _get_uint64(it, container.remaining, NANOCBOR_INT_VAL_UINT32, type)
  IN  IF Rd(it.start) % 32 = 31
      THEN [res |-> NANOCBOR_OK, oob |-> OobAt(it),
            child |-> Iter(it.start + 1, it.end,
                           Or(NANOCBOR_DECODER_FLAG_INDEFINITE,
                              NANOCBOR_DECODER_FLAG_CONTAINER),
                           UINT32_MAX)]
      ELSE IF r.res < 0
      THEN [res |-> r.res, oob |-> r.oob, child |-> c]
      ELSE [res |-> NANOCBOR_OK, oob |-> r.oob,
            child |-> Iter(it.start + r.res, it.end,
                           NANOCBOR_DECODER_FLAG_CONTAINER, r.val)]

nanocbor_enter_array(it, array) == _enter_container(it, array, NANOCBOR_MASK_ARR)

nanocbor_enter_map(it, map) ==
  LET e == _enter_container(it, map, NANOCBOR_MASK_MAP)
  IN  IF AboveInt32Max(e.child.remaining)
      THEN [e EXCEPT !.res = NANOCBOR_ERR_OVERFLOW]
      ELSE [e EXCEPT !.child.remaining = Twice(@)]

\* a slip: `it->flags & NANOCBOR_DECODER_FLAG_CONTAINER` instead of `==`
nanocbor_leave_container_any(it, array) ==
  [it EXCEPT !.start = array.start,
             !.remaining = IF HasFlag(it.flags, NANOCBOR_DECODER_FLAG_CONTAINER)
                           THEN Dec(@) ELSE @]

nanocbor_leave_container(it, array) ==
  [it EXCEPT !.start = array.start,
             !.remaining = IF it.flags = NANOCBOR_DECODER_FLAG_CONTAINER
                           THEN Dec(@) ELSE @]

\* _skip_simple; g is the uninitialised uint64_t tmp
_skip_simple(it, g) ==
  LET r == _get_uint64(it, g, NANOCBOR_INT_VAL_UINT64, _get_type(it))
  IN  [res |-> r.res, oob |-> r.oob, it |-> _advance_if(it, r.res), cut |-> FALSE]

\* an uninitialised pointer, n-byte integer and nanocbor_value_t
WildPtr(g) == IF g = 0 THEN -1 ELSE Len(buf) + Slack + 1

Wild(n, g) == Fill(n, g)

WildIter(g) == Iter(WildPtr(g), WildPtr(g), g, Wild(4, g))

\* the walk left the window of memory the model follows
PastWindow(it) == it.start > Len(buf) + Slack

RECURSIVE _skip_limited(_, _, _)
RECURSIVE SkipLoop(_, _, _, _, _)

\* the while loop of _skip_limited over the entered container recurse; res and
\* oob are the result so far
SkipLoop(recurse, limit, g, res, oob) ==
  LET a == nanocbor_at_end(recurse)
      s == _skip_limited(a.it, limit - 1, g)
  IN  IF a.res
      THEN [res |-> res, oob |-> oob \/ a.oob, it |-> a.it, cut |-> FALSE]
      ELSE IF PastWindow(a.it)
      THEN [res |-> res, oob |-> TRUE, it |-> a.it, cut |-> TRUE]
      ELSE IF s.cut \/ s.res < 0
      THEN [s EXCEPT !.oob = @ \/ oob \/ a.oob]
      ELSE SkipLoop(s.it, limit, g, s.res, oob \/ a.oob \/ s.oob)

\* _skip_limited(it, limit); g chooses what the uninitialised locals hold
_skip_limited(it, limit, g) ==
  LET type == _get_type(it)
      str == _get_str(it, WildPtr(g), Wild(8, g), type)
      e == IF type = NANOCBOR_MASK_MAP
           THEN nanocbor_enter_map(it, WildIter(g))
           ELSE nanocbor_enter_array(it, WildIter(g))
      l == SkipLoop(e.child, limit, g, e.res, e.oob)
  IN  IF limit = 0
      THEN [res |-> NANOCBOR_ERR_RECURSION, oob |-> FALSE, it |-> it, cut |-> FALSE]
      ELSE IF type = NANOCBOR_MASK_BSTR \/ type = NANOCBOR_MASK_TSTR
      THEN [res |-> str.res, oob |-> str.oob, it |-> str.it, cut |-> FALSE]
      ELSE IF type = NANOCBOR_MASK_ARR \/ type = NANOCBOR_MASK_MAP
      THEN IF e.res < 0
           THEN [res |-> e.res, oob |-> e.oob,
                 it |-> nanocbor_leave_container(it, e.child), cut |-> FALSE]
           ELSE [res |-> l.res, oob |-> l.oob,
                 it |-> nanocbor_leave_container(it, l.it), cut |-> l.cut]
      ELSE _skip_simple(it, Wild(8, g))

\* a slip: a depth budget one larger than the configured limit
nanocbor_skip_deeper(it, g) == _skip_limited(it, NANOCBOR_RECURSION_MAX + 1, g)

nanocbor_skip(it, g) == _skip_limited(it, NANOCBOR_RECURSION_MAX, g)

---------------------------------------------------------------------------
(* The state machine: a caller holding a stack of iterators, its[1] the    *)
(* top-level one and its[Len(its)] the innermost entered container, and    *)
(* applying one public operation at a time to the innermost iterator.      *)
(* last records the operation just applied: its return value res, the      *)
(* integer or length it wrote (val), the slice pointer it wrote (ptr), the *)
(* child structure after an enter (child), whether it read a byte outside  *)
(* the buffer (oob) and the stack before the call (before).                *)

\* the bytes that may fill an object before it is first written
GarbageFill == {0, 255}
\* the bytes that may lie past the end of the buffer
PadBytes == {0, 255}

cur == its[Len(its)]

Depth == Len(its)

SetCur(it) == [its EXCEPT ![Len(its)] = it]

Rec(op, res, val, ptr, child, oob, cut) ==
  [op |-> op, res |-> res, val |-> val, ptr |-> ptr, child |-> child,
   oob |-> oob, cut |-> cut, before |-> its]

\* the caller goes on while the cursor is inside the window the model follows
Live == ~last.cut /\ cur.start >= 0 /\ cur.start <= Len(buf) + Slack

GetType ==
  /\ Live
  /\ last' = Rec("getType", nanocbor_get_type(cur), <<>>, WildPtr(junk), cur, OobAt(cur), FALSE)
  /\ UNCHANGED <<buf, pad, junk, its>>

AtEnd ==
  /\ Live
  /\ LET r == nanocbor_at_end(cur)
     IN  /\ its' = SetCur(r.it)
         /\ last' = Rec("atEnd", IF r.res THEN 1 ELSE 0, <<>>, WildPtr(junk), cur, r.oob, FALSE)
  /\ UNCHANGED <<buf, pad, junk>>

GetUint32 ==
  /\ Live
  /\ LET r == nanocbor_get_uint32(cur, Wild(4, junk))
     IN  /\ its' = SetCur(r.it)
         /\ last' = Rec("getUint32", r.res, r.val, WildPtr(junk), cur, r.oob, FALSE)
  /\ UNCHANGED <<buf, pad, junk>>

GetInt32 ==
  /\ Live
  /\ LET r == nanocbor_get_int32(cur, Wild(4, junk))
     IN  /\ its' = SetCur(r.it)
         /\ last' = Rec("getInt32", r.res, r.val, WildPtr(junk), cur, r.oob, FALSE)
  /\ UNCHANGED <<buf, pad, junk>>

GetBool ==
  /\ Live
  /\ LET r == nanocbor_get_bool(cur, <<junk>>)
     IN  /\ its' = SetCur(r.it)
         /\ last' = Rec("getBool", r.res, r.val, WildPtr(junk), cur, r.oob, FALSE)
  /\ UNCHANGED <<buf, pad, junk>>

GetNull ==
  /\ Live
  /\ LET r == nanocbor_get_null(cur)
     IN  /\ its' = SetCur(r.it)
         /\ last' = Rec("getNull", r.res, <<>>, WildPtr(junk), cur, r.oob, FALSE)
  /\ UNCHANGED <<buf, pad, junk>>

GetByteString ==
  /\ Live
  /\ LET r == nanocbor_get_bstr(cur, WildPtr(junk), Wild(8, junk))
     IN  /\ its' = SetCur(r.it)
         /\ last' = Rec("getByteString", r.res, r.len, r.ptr, cur, r.oob, FALSE)
  /\ UNCHANGED <<buf, pad, junk>>

GetTextString ==
  /\ Live
  /\ LET r == nanocbor_get_tstr(cur, WildPtr(junk), Wild(8, junk))
     IN  /\ its' = SetCur(r.it)
         /\ last' = Rec("getTextString", r.res, r.len, r.ptr, cur, r.oob, FALSE)
  /\ UNCHANGED <<buf, pad, junk>>

\* the caller uses the child only when the enter call succeeded
EnterArray ==
  /\ Live
  /\ Depth < MaxDepth
  /\ LET r == nanocbor_enter_array(cur, WildIter(junk))
     IN  /\ its' = IF r.res < 0 THEN its ELSE Append(its, r.child)
         /\ last' = Rec("enterArray", r.res, <<>>, WildPtr(junk), r.child, r.oob, FALSE)
  /\ UNCHANGED <<buf, pad, junk>>

EnterMap ==
  /\ Live
  /\ Depth < MaxDepth
  /\ LET r == nanocbor_enter_map(cur, WildIter(junk))
     IN  /\ its' = IF r.res < 0 THEN its ELSE Append(its, r.child)
         /\ last' = Rec("enterMap", r.res, <<>>, WildPtr(junk), r.child, r.oob, FALSE)
  /\ UNCHANGED <<buf, pad, junk>>

LeaveContainer ==
  /\ Live
  /\ Depth > 1
  /\ its' = [SubSeq(its, 1, Depth - 1) EXCEPT
               ![Depth - 1] = nanocbor_leave_container(its[Depth - 1], cur)]
  /\ last' = Rec("leaveContainer", NANOCBOR_OK, <<>>, WildPtr(junk), cur, FALSE, FALSE)
  /\ UNCHANGED <<buf, pad, junk>>

Skip ==
  /\ Live
  /\ LET r == nanocbor_skip(cur, junk)
     IN  /\ its' = SetCur(r.it)
         /\ last' = Rec("skip", r.res, <<>>, WildPtr(junk), cur, r.oob, r.cut)
  /\ UNCHANGED <<buf, pad, junk>>

---------------------------------------------------------------------------
(* The general specification: every buffer of at most MaxLen bytes over an *)
(* alphabet holding each kind of header, and every sequence of operations. *)

\* 0x00 0x18 0x20 0x41 0x62 0x81 0x9F 0xF5 0xF6 0xFF
Alphabet == {0, 24, 32, 65, 98, 129, 159, 245, 246, 255}

RECURSIVE SeqsUpTo(_, _)
SeqsUpTo(S, n) ==
  IF n = 0 THEN {<<>>}
  ELSE LET shorter == SeqsUpTo(S, n - 1)
       IN  shorter \cup {Append(q, b) : q \in {x \in shorter : Len(x) = n - 1}, b \in S}

\* the caller's nanocbor_decoder_init(&it, buf, len) over the chosen buffer
Start ==
  /\ pad \in PadBytes
  /\ junk \in GarbageFill
  /\ its = <<nanocbor_decoder_init(Len(buf), Wild(4, junk))>>
  /\ last = [op |-> "init", res |-> NANOCBOR_OK, val |-> <<>>, ptr |-> WildPtr(junk),
             child |-> nanocbor_decoder_init(Len(buf), Wild(4, junk)),
             oob |-> FALSE, cut |-> FALSE, before |-> <<>>]

Init ==
  /\ buf \in SeqsUpTo(Alphabet, MaxLen)
  /\ Start

Next ==
  \/ GetType
  \/ AtEnd
  \/ GetUint32
  \/ GetInt32
  \/ GetBool
  \/ GetNull
  \/ GetByteString
  \/ GetTextString
  \/ EnterArray
  \/ EnterMap
  \/ LeaveContainer
  \/ Skip

Spec == Init /\ [][Next]_vars

---------------------------------------------------------------------------
(* Claims checked under Spec. *)

Accessors == {"getUint32", "getInt32", "getBool", "getNull",
              "getByteString", "getTextString"}

StringAccessors == {"getByteString", "getTextString"}

\* the iterator the last operation was applied to, before the call
Before == last.before[Len(last.before)]

\* C2: no operation reads a buffer byte at a position at or past the
\* iterator's end (every read is preceded by a bounds check).
C2_NoReadPastEnd == ~last.oob

\* C3: every iterator, top-level or container, satisfies start <= end.
\* It is stated of the operations that read only bytes of the buffer, so that
\* a violation does not rest on what lies past the buffer.
C3_StartLeEnd == ~last.oob => \A i \in 1..Len(its) : its[i].start <= its[i].end

\* C4: a successful getByteString or getTextString returns a slice inside the
\* buffer: buf is the position right after the string header, buf + len <= end,
\* and the cursor has advanced by exactly the header bytes plus len.
C4_SliceInsideBuffer ==
  (last.op \in StringAccessors /\ last.res >= 0) =>
     /\ IsSmall(last.val)
     /\ last.ptr = Before.start + last.res
     /\ last.ptr + Val(last.val) <= Before.end
     /\ cur.start = Before.start + last.res + Val(last.val)

\* C5: when getUint32, getInt32, getBool, getNull, getByteString or
\* getTextString returns an error, the iterator's start and remaining (and the
\* rest of the iterator stack) are exactly what they were before the call.
C5_NoMutationOnFailure ==
  (last.op \in Accessors /\ last.res < 0) => its = last.before

\* C5's case: inside an entered array, a string accessor reads the header of
\* a string longer than the rest of the buffer and fails with the truncation
\* error.
C5_Witness ==
  /\ last.op \in StringAccessors
  /\ last.res = NANOCBOR_ERR_END
  /\ ~last.oob
  /\ Depth = 2
  /\ cur.flags = NANOCBOR_DECODER_FLAG_CONTAINER
  /\ Rd(cur.start) \in {66, 98}

---------------------------------------------------------------------------
(* Truncated items: an iterator initialised over a strict prefix of the    *)
(* complete encoding of one item, and the accessors applied to it.         *)

\* the operation was applied to the iterator as nanocbor_decoder_init left it
FirstOp ==
  /\ last.op # "init"
  /\ last.before = <<nanocbor_decoder_init(Len(buf), Wild(4, junk))>>

\* complete encodings: integers with an argument of 1, 2 and 4 bytes, strings
\* of 1 and 2 bytes and with a 1-byte length, container headers with a count
\* of 1 and 2 bytes
CompleteItems ==
  {<<24, 100>>, <<25, 1, 0>>, <<26, 1, 0, 0, 0>>,
   <<56, 100>>, <<57, 1, 0>>, <<58, 1, 0, 0, 0>>,
   <<65, 7>>, <<66, 7, 7>>, <<88, 2, 7, 7>>,
   <<97, 7>>, <<98, 7, 7>>, <<120, 2, 7, 7>>,
   <<152, 24>>, <<153, 1, 0>>,
   <<184, 24>>, <<185, 1, 0>>}

StrictPrefixes(e) == {SubSeq(e, 1, k) : k \in 0..(Len(e) - 1)}

TruncatedItems == UNION {StrictPrefixes(e) : e \in CompleteItems}

\* the accessors for the item a prefix p was cut from: every accessor for the
\* empty prefix, else those for the major type of its first byte
AccessorsFor(p) ==
  IF p = <<>>
  THEN {"getUint32", "getInt32", "getByteString", "getTextString",
        "enterArray", "enterMap"}
  ELSE LET type == (p[1] \div 32) * 32
       IN  IF type = NANOCBOR_MASK_UINT THEN {"getUint32", "getInt32"}
           ELSE IF type = NANOCBOR_MASK_NINT THEN {"getInt32"}
           ELSE IF type = NANOCBOR_MASK_BSTR THEN {"getByteString"}
           ELSE IF type = NANOCBOR_MASK_TSTR THEN {"getTextString"}
           ELSE IF type = NANOCBOR_MASK_ARR THEN {"enterArray"}
           ELSE IF type = NANOCBOR_MASK_MAP THEN {"enterMap"}
           ELSE {}

InitTrunc ==
  /\ buf \in TruncatedItems
  /\ Start

NextTrunc ==
  \/ GetUint32
  \/ GetInt32
  \/ GetByteString
  \/ GetTextString
  \/ EnterArray
  \/ EnterMap

SpecTrunc == InitTrunc /\ [][NextTrunc]_vars

\* C1: on an iterator initialised over a strict prefix of a complete item
\* (the empty prefix and [0x18] included), the accessor for that item returns
\* the truncation error and leaves the iterator's start unchanged.
C1_TruncatedItemFails ==
  (FirstOp /\ buf \in TruncatedItems /\ last.op \in AccessorsFor(buf)) =>
     /\ last.res = NANOCBOR_ERR_END
     /\ its[1].start = 0

---------------------------------------------------------------------------
(* Integer items: the encoding of one unsigned or negative integer, as the *)
(* symmetric encoder emits it, and the integer accessors applied to it.    *)

\* the bytes the sampled 32-bit magnitudes are made of: 0x00 0x17 0x18 0x80 0xFF
SampleBytes == {0, 23, 24, 128, 255}

\* 32-bit magnitudes, least significant byte first
Magnitudes == {<<a, b, c, d>> : a \in SampleBytes, b \in SampleBytes,
                                c \in SampleBytes, d \in SampleBytes}

\* two magnitudes of 64 bits: 2^32 and 2^64 - 1
WideMagnitudes == {<<0, 0, 0, 0, 1, 0, 0, 0>>, Fill(8, 255)}

\* the encoder's header and argument for major type `type` and magnitude m:
\* inline below 24, else the shortest of 1, 2, 4 or 8 big-endian bytes
fmt_uint(type, m) ==
  LET zeroFrom(k) == \A i \in k..Len(m) : m[i] = 0
  IN  IF zeroFrom(2) /\ m[1] < 24 THEN <<type + m[1]>>
      ELSE IF zeroFrom(2) THEN <<type + NANOCBOR_INT_VAL_UINT8, m[1]>>
      ELSE IF zeroFrom(3) THEN <<type + NANOCBOR_INT_VAL_UINT16, m[2], m[1]>>
      ELSE IF zeroFrom(5)
      THEN <<type + NANOCBOR_INT_VAL_UINT32, m[4], m[3], m[2], m[1]>>
      ELSE <<type + NANOCBOR_INT_VAL_UINT64,
             m[8], m[7], m[6], m[5], m[4], m[3], m[2], m[1]>>

IntItems == [type : {NANOCBOR_MASK_UINT, NANOCBOR_MASK_NINT},
             mag : Magnitudes \cup WideMagnitudes]

InitInt ==
  /\ buf \in {fmt_uint(x.type, x.mag) : x \in IntItems}
  /\ Start

NextInt ==
  \/ GetUint32
  \/ GetInt32

SpecInt == InitInt /\ [][NextInt]_vars

\* C6: getUint32 on the encoding of an unsigned n below 2^32 succeeds, yields
\* exactly n and advances the cursor by the 1, 2, 3 or 5 encoded bytes.
C6_Uint32RoundTrip ==
  \A n \in Magnitudes :
    (FirstOp /\ last.op = "getUint32" /\ buf = fmt_uint(NANOCBOR_MASK_UINT, n)) =>
       /\ last.res > 0
       /\ last.val = n
       /\ its[1].start = Len(buf)
       /\ Len(buf) \in {1, 2, 3, 5}

\* the item's mathematical value, the magnitude m or -(m) - 1, lies in
\* [-2^31, 2^31 - 1]
FitsInt32(x) == (\A i \in 5..Len(x.mag) : x.mag[i] = 0) /\ x.mag[4] < 128

\* the 32-bit two's complement object holding the item's value
Int32Of(x) ==
  LET m == SubSeq(x.mag, 1, 4)
  IN  IF x.type = NANOCBOR_MASK_UINT THEN m ELSE Not(m)

\* C7: getInt32 succeeds only when the item's value lies in the signed 32-bit
\* range, and then returns exactly that value; on every integer item whose
\* value does not fit it fails with Overflow.
C7_Int32Range ==
  \A x \in IntItems :
    (FirstOp /\ last.op = "getInt32" /\ buf = fmt_uint(x.type, x.mag)) =>
       /\ last.res >= 0 => (FitsInt32(x) /\ last.val = Int32Of(x))
       /\ ~FitsInt32(x) => last.res = NANOCBOR_ERR_OVERFLOW

---------------------------------------------------------------------------
(* Containers: one well-formed array, map or indefinite byte string of     *)
(* one-byte unsigned elements, and the operations that walk it.            *)

\* a count that needs the 1-byte argument
WideCount == 24

\* the i-th element: the unsigned integers 1..23 in turn, one byte each
Elem(i) == ((i - 1) % 23) + 1

Elems(k) == [i \in 1..k |-> Elem(i)]

\* number of items inside a container of declared count c
ItemCount(type, c) == IF type = NANOCBOR_MASK_MAP THEN 2 * c ELSE c

HeaderLen(c) == IF c < 24 THEN 1 ELSE 2

\* the definite array or map of declared count c, headed as the encoder does
DefiniteContainer(type, c) ==
  (IF c < 24 THEN <<type + c>> ELSE <<type + NANOCBOR_INT_VAL_UINT8, c>>)
  \o Elems(ItemCount(type, c))

\* the same content between the indefinite header and the break byte
IndefiniteContainer(type, c) ==
  <<type + 31>> \o Elems(ItemCount(type, c)) \o <<255>>

\* c chunks of one byte each between 0x5F and the break byte
IndefiniteByteString(c) ==
  <<NANOCBOR_MASK_BSTR + 31>>
  \o [i \in 1..(2 * c) |-> IF i % 2 = 1 THEN NANOCBOR_MASK_BSTR + 1 ELSE Elem(i \div 2)]
  \o <<255>>

ContainerTypes == {NANOCBOR_MASK_ARR, NANOCBOR_MASK_MAP}

Counts == (0..MaxCount) \cup {WideCount}

InitContainer ==
  /\ buf \in {DefiniteContainer(t, c) : t \in ContainerTypes, c \in Counts}
  /\ Start

NextContainer ==
  \/ AtEnd
  \/ GetUint32
  \/ EnterArray
  \/ EnterMap
  \/ LeaveContainer

SpecContainer == InitContainer /\ [][NextContainer]_vars

InitIndefinite ==
  /\ buf \in {IndefiniteContainer(t, c) : t \in ContainerTypes, c \in 0..MaxCount}
         \cup {IndefiniteByteString(c) : c \in 0..MaxCount}
  /\ Start

NextIndefinite ==
  \/ AtEnd
  \/ GetUint32
  \/ GetByteString
  \/ EnterArray
  \/ EnterMap
  \/ LeaveContainer
  \/ Skip

SpecIndefinite == InitIndefinite /\ [][NextIndefinite]_vars

EnterOp(type) == IF type = NANOCBOR_MASK_MAP THEN "enterMap" ELSE "enterArray"

\* the innermost iterator is the child entered at the start of the buffer
InChild == Depth = 2 /\ its[1] = nanocbor_decoder_init(Len(buf), Wild(4, junk))

\* the last operation was applied to that child
WasInChild ==
  /\ Len(last.before) = 2
  /\ last.before[1] = nanocbor_decoder_init(Len(buf), Wild(4, junk))

\* C8: for a well-formed definite array or map of declared count c of scalar
\* elements, enter yields remaining = c (2c for a map); atEnd on the child is
\* false before each of the first c (2c) element reads and true after them; the
\* reads yield the elements in order; leaveContainer then leaves the parent
\* cursor one byte past the container's last byte.
C8_DefiniteContainerWalk ==
  \A t \in ContainerTypes : \A c \in Counts :
    LET k == ItemCount(t, c)
        h == HeaderLen(c)
    IN  buf = DefiniteContainer(t, c) =>
          /\ (FirstOp /\ last.op = EnterOp(t)) =>
                /\ last.res = NANOCBOR_OK
                /\ Depth = 2
                /\ cur.start = h
                /\ cur.remaining = LE(k, 4)
          /\ (WasInChild /\ last.op = "atEnd" /\ Before.start - h <= k) =>
                (last.res = 1 <=> Before.start - h = k)
          /\ (WasInChild /\ last.op = "getUint32" /\ Before.start - h < k) =>
                /\ last.res = 1
                /\ last.val = LE(Elem(Before.start - h + 1), 4)
                /\ cur.start = Before.start + 1
          /\ (WasInChild /\ last.op = "leaveContainer" /\ Before.start = h + k) =>
                its[1].start = Len(buf)

\* C9: a well-formed indefinite-length byte string, array or map decodes like
\* its definite-length form: skip and getByteString succeed with the cursor
\* one byte past the item; enterArray and enterMap succeed, atEnd on the child
\* is true exactly after the last element, the reads yield the elements in
\* order, and leaveContainer leaves the parent one byte past the item.
C9_IndefiniteLikeDefinite ==
  /\ \A c \in 0..MaxCount :
       (buf = IndefiniteByteString(c) /\ FirstOp
        /\ last.op \in {"getByteString", "skip"}) =>
          (last.res >= 0 /\ its[1].start = Len(buf))
  /\ \A t \in ContainerTypes : \A c \in 0..MaxCount :
       LET k == ItemCount(t, c)
       IN  buf = IndefiniteContainer(t, c) =>
             /\ (FirstOp /\ last.op = "skip") =>
                   (last.res >= 0 /\ its[1].start = Len(buf))
             /\ (FirstOp /\ last.op = EnterOp(t)) =>
                   (last.res = NANOCBOR_OK /\ Depth = 2 /\ cur.start = 1)
             /\ (WasInChild /\ last.op = "atEnd" /\ Before.start - 1 <= k) =>
                   (last.res = 1 <=> Before.start - 1 = k)
             /\ (WasInChild /\ last.op = "getUint32" /\ Before.start - 1 < k) =>
                   /\ last.res = 1
                   /\ last.val = LE(Elem(Before.start), 4)
                   /\ cur.start = Before.start + 1
             /\ (WasInChild /\ last.op = "leaveContainer"
                 /\ Before.start = k + 2) =>
                   its[1].start = Len(buf)

---------------------------------------------------------------------------
(* Nesting: a chain of N one-element definite arrays around one scalar,    *)
(* and skip applied to it.                                                  *)

\* the innermost scalar: 0, -1, null, and unsigned integers with a 1-byte and
\* a 2-byte argument
Leaves == {<<0>>, <<32>>, <<246>>, <<24, 100>>, <<25, 1, 0>>}

\* N one-byte headers 0x81, then the leaf
Chain(n, leaf) == [i \in 1..n |-> NANOCBOR_MASK_ARR + 1] \o leaf

\* the nesting depth of the chain in the buffer: its leading array headers
ChainDepth == Cardinality({i \in 1..Len(buf) : buf[i] = NANOCBOR_MASK_ARR + 1})

InitSkip ==
  /\ buf \in {Chain(n, leaf) : n \in 0..MaxNest, leaf \in Leaves}
  /\ Start

NextSkip == Skip

SpecSkip == InitSkip /\ [][NextSkip]_vars

\* the first operation was skip, applied to the whole chain
SkippedChain == FirstOp /\ last.op = "skip"

\* C10 as stated: skip on a chain of N singly-nested one-element arrays fails
\* with the Recursion error when N = NANOCBOR_RECURSION_MAX + 1 and succeeds
\* when N = NANOCBOR_RECURSION_MAX.
C10_AsStated ==
  SkippedChain =>
     /\ ChainDepth = NANOCBOR_RECURSION_MAX + 1 =>
           last.res = NANOCBOR_ERR_RECURSION
     /\ ChainDepth = NANOCBOR_RECURSION_MAX =>
           (last.res >= 0 /\ its[1].start = Len(buf))

\* C10 as amended, for arrays headed by the single byte 0x81: the scalar at the
\* bottom of the chain takes one level of the depth budget, so skip fails with the Recursion error when
\* N = NANOCBOR_RECURSION_MAX + 1 and already when N = NANOCBOR_RECURSION_MAX,
\* and succeeds, consuming the whole chain, when N = NANOCBOR_RECURSION_MAX - 1.
C10_RecursionLimit ==
  SkippedChain =>
     /\ ChainDepth = NANOCBOR_RECURSION_MAX + 1 =>
           last.res = NANOCBOR_ERR_RECURSION
     /\ ChainDepth = NANOCBOR_RECURSION_MAX =>
           last.res = NANOCBOR_ERR_RECURSION
     /\ ChainDepth = NANOCBOR_RECURSION_MAX - 1 =>
           (last.res >= 0 /\ its[1].start = Len(buf))

\* C10's case: skip has consumed a chain of NANOCBOR_RECURSION_MAX - 1 arrays
C10_Witness ==
  /\ SkippedChain
  /\ ChainDepth = NANOCBOR_RECURSION_MAX - 1
  /\ last.res >= 0
  /\ its[1].start = Len(buf)

---------------------------------------------------------------------------
(* Well-formed items: one complete item of each major type, at the top     *)
(* level or as the only element of a definite array, and skip applied to   *)
(* it.                                                                     *)

\* complete encodings: unsigned integers of every argument width, a negative
\* integer, byte and text strings, a tagged integer, simple values, a half
\* float, definite arrays and maps (empty, flat, nested), and the indefinite
\* array, map and byte string
WellFormedItems ==
  {<<0>>, <<24, 100>>, <<25, 1, 0>>, <<26, 1, 0, 0, 0>>,
   <<27, 1, 0, 0, 0, 0, 0, 0, 0>>, <<32>>,
   <<64>>, <<66, 7, 7>>, <<98, 7, 7>>,
   <<193, 0>>,
   <<244>>, <<246>>, <<249, 0, 0>>,
   <<128>>, <<130, 1, 2>>, <<129, 129, 0>>, <<161, 1, 2>>, <<130, 66, 7, 7, 160>>,
   <<159, 1, 255>>, <<191, 1, 2, 255>>, <<95, 65, 7, 255>>}

\* the item as the only element of a definite array
Wrapped(item) == <<NANOCBOR_MASK_ARR + 1>> \o item

InitItem ==
  /\ buf \in WellFormedItems \cup {Wrapped(x) : x \in WellFormedItems}
  /\ Start

NextItem ==
  \/ EnterArray
  \/ Skip

SpecItem == InitItem /\ [][NextItem]_vars

\* C11: skip on a complete, well-formed item of any major type succeeds and
\* leaves the cursor exactly one byte past the item's last byte; when the
\* iterator is a definite container, its remaining is decremented by exactly
\* one for that item.
C11_SkipConsumesItem ==
  \A x \in WellFormedItems :
    /\ (buf = x /\ FirstOp /\ last.op = "skip") =>
          (last.res >= 0 /\ its[1].start = Len(buf))
    /\ (buf = Wrapped(x) /\ WasInChild /\ Before.start = 1 /\ last.op = "skip") =>
          /\ last.res >= 0
          /\ cur.start = Len(buf)
          /\ cur.remaining = Dec(Before.remaining)

---------------------------------------------------------------------------
(* Claims about the bookkeeping of remaining, checked under Spec. *)

\* the iterators that were on the stack before the last operation and still are
Kept == 1..(IF Len(its) < Len(last.before) THEN Len(its) ELSE Len(last.before))

\* C12: an iterator's remaining changes only by a decrement of one, made by a
\* successful leaveContainer or a successful item read on a definite-container
\* iterator, and never when it is 0.  It is stated of the container iterators,
\* whose remaining enter has written, and of the operations that read only
\* bytes of the buffer.
C12_RemainingOnlyDecrements ==
  ~last.oob =>
    \A i \in Kept :
      (i >= 2 /\ its[i].remaining # last.before[i].remaining) =>
         /\ last.before[i].flags = NANOCBOR_DECODER_FLAG_CONTAINER
         /\ last.res >= 0
         /\ last.op \in Accessors \cup {"skip", "leaveContainer"}
         /\ ~IsZero(last.before[i].remaining)
         /\ its[i].remaining = Dec(last.before[i].remaining)

---------------------------------------------------------------------------
(* Claims about entering a container, checked under Spec. *)

ExpectedType(op) ==
  IF op = "enterMap" THEN NANOCBOR_MASK_MAP ELSE NANOCBOR_MASK_ARR

\* C13: enterArray on an item that is not an array, and enterMap on an item
\* that is not a map, fail with InvalidType whatever the initial byte (low five
\* bits 31 included), produce no child and leave the parent unchanged.  It is
\* stated of the calls that read only bytes of the buffer.
C13_EnterWrongType ==
  (/\ last.op \in {"enterArray", "enterMap"}
   /\ ~last.oob
   /\ _get_type(Before) # ExpectedType(last.op)) =>
     /\ last.res = NANOCBOR_ERR_INVALID_TYPE
     /\ its = last.before

---------------------------------------------------------------------------
(* Reserved headers: an initial byte whose argument selector is 28, 29 or  *)
(* 30, followed by up to two bytes, and the operations that parse it.      *)

ReservedSelectors == {28, 29, 30}

MajorTypes == {NANOCBOR_MASK_UINT, NANOCBOR_MASK_NINT, NANOCBOR_MASK_BSTR,
               NANOCBOR_MASK_TSTR, NANOCBOR_MASK_ARR, NANOCBOR_MASK_MAP,
               NANOCBOR_MASK_TAG, NANOCBOR_MASK_FLOAT}

ReservedHeaders ==
  {<<t + v>> \o tail : t \in MajorTypes, v \in ReservedSelectors,
                       tail \in {<<>>, <<0>>, <<0, 0>>}}

InitReserved ==
  /\ buf \in ReservedHeaders
  /\ Start

NextReserved ==
  \/ GetUint32
  \/ GetInt32
  \/ GetByteString
  \/ GetTextString
  \/ EnterArray
  \/ EnterMap
  \/ Skip

SpecReserved == InitReserved /\ [][NextReserved]_vars

\* the operations that expect major type `type`; skip expects whatever it finds
OpsFor(type) ==
  {"skip"} \cup
  (IF type = NANOCBOR_MASK_UINT THEN {"getUint32", "getInt32"}
   ELSE IF type = NANOCBOR_MASK_NINT THEN {"getInt32"}
   ELSE IF type = NANOCBOR_MASK_BSTR THEN {"getByteString"}
   ELSE IF type = NANOCBOR_MASK_TSTR THEN {"getTextString"}
   ELSE IF type = NANOCBOR_MASK_ARR THEN {"enterArray"}
   ELSE IF type = NANOCBOR_MASK_MAP THEN {"enterMap"}
   ELSE {})

\* C14: on an initial byte of the expected major type whose argument selector
\* is 28, 29 or 30, getUint32, getInt32, getByteString, getTextString,
\* enterArray, enterMap and skip fail with InvalidType.
C14_ReservedSelector ==
  (/\ FirstOp
   /\ buf \in ReservedHeaders
   /\ last.op \in OpsFor(_get_type(Before))) =>
     last.res = NANOCBOR_ERR_INVALID_TYPE

\* C19: when skip fails on an array or map item, the parent cursor after the
\* call is a position between the cursor before the call and the end of the
\* buffer, never an undefined value.
C19_SkipFailureCursor ==
  (/\ last.op = "skip"
   /\ last.res < 0
   /\ _get_type(Before) \in {NANOCBOR_MASK_ARR, NANOCBOR_MASK_MAP}) =>
     /\ Before.start <= cur.start
     /\ cur.start <= cur.end

---------------------------------------------------------------------------
(* Map headers: the header of a definite map of declared count c, as the   *)
(* symmetric encoder emits it, and enterMap applied to it.                 *)

MapHeaders == {fmt_uint(NANOCBOR_MASK_MAP, c) : c \in Magnitudes}

InitMapCount ==
  /\ buf \in MapHeaders
  /\ Start

NextMapCount == EnterMap

SpecMapCount == InitMapCount /\ [][NextMapCount]_vars

\* C15: enterMap on a definite map header of declared count c sets the child's
\* remaining to exactly 2 * c when 2 * c fits in 32 bits, and fails with
\* Overflow when it does not.
C15_MapCountDoubled ==
  \A c \in Magnitudes :
    (FirstOp /\ last.op = "enterMap" /\ buf = fmt_uint(NANOCBOR_MASK_MAP, c)) =>
       IF AboveInt32Max(c)
       THEN last.res = NANOCBOR_ERR_OVERFLOW
       ELSE /\ last.res = NANOCBOR_OK
            /\ last.child.remaining = Twice(c)

---------------------------------------------------------------------------
(* Claims about indefinite containers, checked under SpecIndefinite. *)

\* C16: enterArray on the indefinite array header 0x9F and enterMap on the
\* indefinite map header 0xBF succeed and yield a child with flags
\* IS_INDEFINITE | IS_CONTAINER, start one past the parent's, the parent's end
\* and remaining UINT32_MAX; the parent is not modified.
C16_EnterIndefinite ==
  \A t \in ContainerTypes : \A c \in 0..MaxCount :
    (FirstOp /\ last.op = EnterOp(t) /\ buf = IndefiniteContainer(t, c)) =>
       /\ last.res = NANOCBOR_OK
       /\ last.child = Iter(Before.start + 1, Before.end,
                            NANOCBOR_DECODER_FLAG_INDEFINITE
                              + NANOCBOR_DECODER_FLAG_CONTAINER,
                            UINT32_MAX)
       /\ its[1] = Before

---------------------------------------------------------------------------
(* Claims about leaving a container, checked under Spec. *)

\* the parent and the child handed to the last leaveContainer, before the call
LeftParent == last.before[Len(last.before) - 1]

LeftChild == last.before[Len(last.before)]

\* C17: leaveContainer(parent, child) sets parent.start to child.start,
\* decrements parent.remaining by one (modulo 2^32) exactly when the parent's
\* flags are exactly IS_CONTAINER, and leaves parent.end, parent.flags, the
\* child, the other iterators and otherwise parent.remaining unchanged.
C17_LeaveContainer ==
  last.op = "leaveContainer" =>
     /\ Len(its) = Len(last.before) - 1
     /\ cur.start = LeftChild.start
     /\ cur.end = LeftParent.end
     /\ cur.flags = LeftParent.flags
     /\ cur.remaining = IF LeftParent.flags = NANOCBOR_DECODER_FLAG_CONTAINER
                        THEN Dec(LeftParent.remaining)
                        ELSE LeftParent.remaining
     /\ last.child = LeftChild
     /\ \A i \in 1..(Len(its) - 1) : its[i] = last.before[i]

\* C17's case: inside the buffer, a nested container has been left into a
\* parent that is a definite container with elements remaining
C17_Witness ==
  /\ last.op = "leaveContainer"
  /\ Depth = 2
  /\ LeftParent.flags = NANOCBOR_DECODER_FLAG_CONTAINER
  /\ ~IsZero(LeftParent.remaining)
  /\ cur.remaining = Dec(LeftParent.remaining)
  /\ cur.start = LeftChild.start
  /\ LeftChild.start > LeftParent.start
  /\ LeftParent.start < Len(buf)
  /\ LeftChild.start <= Len(buf)

---------------------------------------------------------------------------
(* nanocbor_at_end as a function of the iterator: the iterator is drawn    *)
(* from the states a walk can leave it in, over a buffer that stands for   *)
(* the bytes around the cursor.  A definite child holds any count; an      *)
(* indefinite child starts at UINT32_MAX and loses one per element read,   *)
(* so that it holds 0 after 2^32 - 1 reads; the top-level iterator holds   *)
(* whatever its memory held.                                               *)

AtEndFlags ==
  {0, NANOCBOR_DECODER_FLAG_CONTAINER,
   NANOCBOR_DECODER_FLAG_INDEFINITE + NANOCBOR_DECODER_FLAG_CONTAINER}

AtEndCounts == {LE(0, 4), LE(1, 4), UINT32_MAX}

\* an unsigned element 0x01 and the break byte
AtEndBytes == {1, 255}

InitAtEnd ==
  /\ buf \in SeqsUpTo(AtEndBytes, MaxLen)
  /\ pad \in PadBytes
  /\ junk \in GarbageFill
  \* a child's cursor lies past the header it was entered through
  /\ \E s \in 0..Len(buf), f \in AtEndFlags, r \in AtEndCounts :
       /\ f # 0 => s >= 1
       /\ its = <<Iter(s, Len(buf), f, r)>>
  /\ last = [op |-> "init", res |-> NANOCBOR_OK, val |-> <<>>, ptr |-> WildPtr(junk),
             child |-> its[1], oob |-> FALSE, cut |-> FALSE, before |-> <<>>]

NextAtEnd ==
  \/ AtEnd
  \/ GetUint32

SpecAtEnd == InitAtEnd /\ [][NextAtEnd]_vars

\* C18: atEnd is true for a definite container iff remaining = 0, for an
\* indefinite container iff the byte at the cursor is 0xFF whatever remaining
\* holds, and for a top-level iterator iff start >= end; it advances start by
\* one when it is true on an indefinite container and changes nothing
\* otherwise.  It is stated of the calls that read only bytes of the buffer.
C18_AtEnd ==
  (last.op = "atEnd" /\ ~last.oob) =>
     /\ Before.flags = NANOCBOR_DECODER_FLAG_CONTAINER =>
           /\ last.res = 1 <=> IsZero(Before.remaining)
           /\ cur = Before
     /\ Before.flags = NANOCBOR_DECODER_FLAG_INDEFINITE
                         + NANOCBOR_DECODER_FLAG_CONTAINER =>
           /\ last.res = 1 <=> Rd(Before.start) = 255
           /\ cur = IF last.res = 1
                    THEN [Before EXCEPT !.start = @ + 1] ELSE Before
     /\ Before.flags = 0 =>
           /\ last.res = 1 <=> Before.start >= Before.end
           /\ cur = Before

---------------------------------------------------------------------------
(* Two runs that differ in what the output objects held, checked under     *)
(* Spec: the run of the state, whose objects held junk, against the same   *)
(* call with objects that held the byte g.                                 *)

\* C20: the value a successful getUint32 or getInt32 writes, the length a
\* successful getByteString or getTextString writes and the remaining a
\* successful enterArray or enterMap writes are the same whatever the output
\* variable or the child structure held before the call.  It is stated of the
\* calls that read only bytes of the buffer.
C20_OutputIndependentOfPrior ==
  \A g \in GarbageFill :
    (last.res >= 0 /\ ~last.oob) =>
      /\ last.op = "getUint32" =>
            last.val = nanocbor_get_uint32(Before, Wild(4, g)).val
      /\ last.op = "getInt32" =>
            last.val = nanocbor_get_int32(Before, Wild(4, g)).val
      /\ last.op = "getByteString" =>
            last.val = nanocbor_get_bstr(Before, WildPtr(g), Wild(8, g)).len
      /\ last.op = "getTextString" =>
            last.val = nanocbor_get_tstr(Before, WildPtr(g), Wild(8, g)).len
      /\ last.op = "enterArray" =>
            last.child.remaining
              = nanocbor_enter_array(Before, WildIter(g)).child.remaining
      /\ last.op = "enterMap" =>
            last.child.remaining
              = nanocbor_enter_map(Before, WildIter(g)).child.remaining

====
